---- MODULE Spec2Model ----
(***************************************************************************)
(* graphMaker.py: the bounded, filtered breadth-first construction of a    *)
(* package dependency graph, its inversion, the tree renderer and the exit *)
(* behaviour of main.                                                      *)
(*                                                                         *)
(* A package name is a sequence of one-character strings, so that          *)
(* `filter_substring in pkg` is a real substring test.  A Python dict is a *)
(* sequence of <<key, value>> pairs in insertion order.                    *)
(***************************************************************************)
EXTENDS Integers, Sequences, FiniteSets, TLC

\* ---------------------------------------------------------------- bounds
MaxEdges == 4           \* most dependency entries the whole index holds
MaxDepthCfg == 2        \* the configuration file holds a max_depth up to this, or 5
RecursionLimit == 5     \* interpreter's limit on nested print_ascii_tree calls

\* ---------------------------------------------------------------- inputs
A == <<"A">>
B == <<"B">>
BC == <<"B", "C">>
Names == {A, B, BC}
Filters == {<<>>, <<"A">>, <<"B">>, <<"C">>}
\* an index: a dependency list for each name, of the lengths `lens`
Lens == {l \in [Names -> 0..MaxEdges] : l[A] + l[B] + l[BC] <= MaxEdges}
Slots(lens) == {s \in Names \X (1..MaxEdges) : s[2] <= lens[s[1]]}
MakeIndex(lens, flat) == [n \in Names |-> [i \in 1..lens[n] |-> flat[<<n, i>>]]]
RawConfigs ==
    [package_name : Names \cup {<<>>},
     max_depth : ((-1)..MaxDepthCfg) \cup {5},
     filter_substring : Filters]
NoConfig ==
    [package_name |-> <<>>, max_depth |-> -1,
     filter_substring |-> <<>>]
NoIndex == [n \in Names |-> <<>>]

VARIABLES
    pc,             \* the stage main is at (lines 188-237)
    config,         \* main's config: package_name, max_depth, filter_substring
    index,          \* the index behind index_path: name -> dependency list
    graph,          \* get_all_dependencies_bfs: graph (line 101)
    visited,        \* get_all_dependencies_bfs: visited (line 102)
    queue,          \* get_all_dependencies_bfs: queue of <<pkg, depth>> (line 103)
    calls,          \* the names passed to parse_apk_index at line 118, in order
    reverse_graph,  \* main's rev (line 224)
    dot_str,        \* main's dot_str (line 228)
    tree,           \* the lines print_ascii_tree printed
    failure,        \* the failure reported to the user, "none" if none
    exit_status     \* the process's exit status, -1 while it runs

vars == <<pc, config, index, graph, visited, queue, calls,
          reverse_graph, dot_str, tree, failure, exit_status>>

\* ------------------------------------------------------------ Python dict
DictKeys(d) == {d[i][1] : i \in 1..Len(d)}

DictGet(d, k, default) ==
    IF k \in DictKeys(d)
    THEN d[CHOOSE i \in 1..Len(d) : d[i][1] = k][2]
    ELSE default

DictSet(d, k, v) ==
    IF k \in DictKeys(d)
    THEN [i \in 1..Len(d) |-> IF d[i][1] = k THEN <<k, v>> ELSE d[i]]
    ELSE Append(d, <<k, v>>)

Range(s) == {s[i] : i \in 1..Len(s)}

\* ------------------------------------------------------- validate_config
validate_config(cfg) ==
    /\ cfg.package_name # <<>>
    /\ cfg.max_depth >= 0

\* ------------------------------------------------------- parse_apk_index
parse_apk_index(idx, package_name) == idx[package_name]

\* ---------------------------------------------- get_all_dependencies_bfs
IsSubstring(sub, s) ==
    \E i \in 1..(Len(s) - Len(sub) + 1) : SubSeq(s, i, i + Len(sub) - 1) = sub

\* mutant: the filter compared for equality instead of containment
ExcludedIfEqual(filter_substring, pkg) ==
    filter_substring # <<>> /\ filter_substring = pkg

Excluded(filter_substring, pkg) ==
    filter_substring # <<>> /\ IsSubstring(filter_substring, pkg)

\* mutant: the visited check on dequeue left out
NeverVisited(pkg, vis) == FALSE

AlreadyVisited(pkg, vis) == pkg \in vis

\* mutant: visited.add(pkg) left out
MarkNothing(vis, pkg) == vis

MarkVisited(vis, pkg) == vis \cup {pkg}

\* mutant: children queued at their parent's depth
RECURSIVE EnqueueSameDepth(_, _, _, _)
EnqueueSameDepth(deps, depth, vis, max_depth) ==
    IF ~(depth < max_depth) \/ deps = <<>> THEN <<>>
    ELSE (IF Head(deps) \notin vis THEN <<(<<Head(deps), depth>>)>> ELSE <<>>)
         \o EnqueueSameDepth(Tail(deps), depth, vis, max_depth)

\* mutant: the last level is not queued (depth + 1 < max_depth)
RECURSIVE EnqueueOffByOne(_, _, _, _)
EnqueueOffByOne(deps, depth, vis, max_depth) ==
    IF ~(depth + 1 < max_depth) \/ deps = <<>> THEN <<>>
    ELSE (IF Head(deps) \notin vis THEN <<(<<Head(deps), depth + 1>>)>> ELSE <<>>)
         \o EnqueueOffByOne(Tail(deps), depth, vis, max_depth)

\* mutant: children queued whatever the depth
RECURSIVE EnqueueAnyDepth(_, _, _, _)
EnqueueAnyDepth(deps, depth, vis, max_depth) ==
    IF deps = <<>> THEN <<>>
    ELSE (IF Head(deps) \notin vis THEN <<(<<Head(deps), depth + 1>>)>> ELSE <<>>)
         \o EnqueueAnyDepth(Tail(deps), depth, vis, max_depth)

RECURSIVE Enqueue(_, _, _, _)
Enqueue(deps, depth, vis, max_depth) ==
    IF ~(depth < max_depth) \/ deps = <<>> THEN <<>>
    ELSE (IF Head(deps) \notin vis THEN <<(<<Head(deps), depth + 1>>)>> ELSE <<>>)
         \o Enqueue(Tail(deps), depth, vis, max_depth)

\* ---------------------------------------------- get_reverse_dependencies
\* reverse_graph[d].append(pkg) on a defaultdict(list)
\* mutant: the list assigned instead of appended to
RevAssign(rg, d, pkg) == DictSet(rg, d, <<pkg>>)

RevAppend(rg, d, pkg) == DictSet(rg, d, Append(DictGet(rg, d, <<>>), pkg))

RECURSIVE RevDeps(_, _, _)
RevDeps(rg, pkg, deps) ==
    IF deps = <<>> THEN rg
    ELSE RevDeps(RevAppend(rg, Head(deps), pkg), pkg, Tail(deps))

RECURSIVE RevItems(_, _)
RevItems(rg, items) ==
    IF items = <<>> THEN rg
    ELSE RevItems(RevDeps(rg, Head(items)[1], Head(items)[2]), Tail(items))

get_reverse_dependencies(g) == RevItems(<<>>, g)

\* ----------------------------------------------------------- generate_dot
RECURSIVE DotEdges(_, _)
DotEdges(pkg, deps) ==
    IF deps = <<>> THEN <<>>
    ELSE <<(<<"edge", pkg, Head(deps)>>)>> \o DotEdges(pkg, Tail(deps))

RECURSIVE DotItems(_)
DotItems(items) ==
    IF items = <<>> THEN <<>>
    ELSE DotEdges(Head(items)[1], Head(items)[2])
         \o (IF Head(items)[2] = <<>> THEN <<(<<"node", Head(items)[1]>>)>> ELSE <<>>)
         \o DotItems(Tail(items))

generate_dot(g) == <<(<<"digraph G {">>)>> \o DotItems(g) \o <<(<<"}">>)>>

\* ------------------------------------------------------- print_ascii_tree
\* The result is the printed lines (<<prefix, name>>) and whether the walk
\* returned; it does not return when the nesting of calls passes the
\* interpreter's recursion limit (RecursionError).
RECURSIVE print_ascii_tree(_, _, _, _)
RECURSIVE TreeChildren(_, _, _, _, _, _)
print_ascii_tree(g, root, prefix, level) ==
    IF level > RecursionLimit
    THEN [out |-> <<>>, returned |-> FALSE]
    ELSE TreeChildren(g, DictGet(g, root, <<>>), 1, prefix, level,
                      <<(<<prefix, root>>)>>)

TreeChildren(g, deps, i, prefix, level, out) ==
    IF i > Len(deps) THEN [out |-> out, returned |-> TRUE]
    ELSE LET connector == IF i = Len(deps) THEN "L- " ELSE "|- "
             next_prefix == prefix \o (IF i = Len(deps) THEN <<"   ">> ELSE <<"|  ">>)
             r == print_ascii_tree(g, deps[i], next_prefix \o <<connector>>, level + 1)
         IN  IF r.returned
             THEN TreeChildren(g, deps, i + 1, prefix, level, out \o r.out)
             ELSE [out |-> out \o r.out, returned |-> FALSE]

\* ------------------------------------- the Graph Builder of the design (4.1)
\* Steps 2 to 5 in the design's order: visited, depth, filter, and a name is
\* marked visited only when it is recorded.
RECURSIVE DesignBuild(_, _, _, _, _, _, _)
DesignBuild(q, vis, g, looked, lookup, maxDepth, excludeSubstring) ==
    IF q = <<>> THEN [graph |-> g, calls |-> looked]
    ELSE LET name == Head(q)[1]
             depth == Head(q)[2]
             discard == DesignBuild(Tail(q), vis, g, looked, lookup, maxDepth,
                                    excludeSubstring)
         IN  IF name \in vis THEN discard
             ELSE IF depth > maxDepth THEN discard
             ELSE IF excludeSubstring # <<>> /\ IsSubstring(excludeSubstring, name)
             THEN discard
             ELSE LET depsList == lookup[name]
                      seen == vis \cup {name}
                      fresh == SelectSeq(depsList, LAMBDA d : d \notin seen)
                      children == IF depth < maxDepth
                                  THEN [i \in 1..Len(fresh) |-> <<fresh[i], depth + 1>>]
                                  ELSE <<>>
                  IN  DesignBuild(Tail(q) \o children, seen,
                                  DictSet(g, name, depsList), Append(looked, name),
                                  lookup, maxDepth, excludeSubstring)

\* ------------------------------------------------------------------- main
Init ==
    /\ pc = "load_config"
    /\ config = NoConfig
    /\ index = NoIndex
    /\ graph = <<>>
    /\ visited = {}
    /\ queue = <<>>
    /\ calls = <<>>
    /\ reverse_graph = <<>>
    /\ dot_str = <<>>
    /\ tree = <<>>
    /\ failure = "none"
    /\ exit_status = -1

Fail(stage) ==
    /\ pc' = "exit"
    /\ failure' = stage
    /\ exit_status' = 1

LoadConfig ==
    /\ pc = "load_config"
    /\ \E cfg \in RawConfigs : config' = cfg
    /\ pc' = "validate_config"
    /\ UNCHANGED <<index, graph, visited, queue, calls, reverse_graph,
                   dot_str, tree, failure, exit_status>>

LoadConfigFails ==
    /\ pc = "load_config"
    /\ Fail("config")
    /\ UNCHANGED <<config, index, graph, visited, queue, calls,
                   reverse_graph, dot_str, tree>>

ValidateConfig ==
    /\ pc = "validate_config"
    /\ validate_config(config)
    /\ pc' = "download_apk_index"
    /\ UNCHANGED <<config, index, graph, visited, queue, calls,
                   reverse_graph, dot_str, tree, failure, exit_status>>

ValidateConfigFails ==
    /\ pc = "validate_config"
    /\ ~validate_config(config)
    /\ Fail("config")
    /\ UNCHANGED <<config, index, graph, visited, queue, calls,
                   reverse_graph, dot_str, tree>>

DownloadApkIndex ==
    /\ pc = "download_apk_index"
    /\ \E lens \in Lens : \E flat \in [Slots(lens) -> Names] :
           index' = MakeIndex(lens, flat)
    /\ pc' = "direct"
    /\ UNCHANGED <<config, graph, visited, queue, calls, reverse_graph,
                   dot_str, tree, failure, exit_status>>

DownloadApkIndexFails ==
    /\ pc = "download_apk_index"
    /\ Fail("index")
    /\ UNCHANGED <<config, index, graph, visited, queue, calls,
                   reverse_graph, dot_str, tree>>

\* main's own lookup of the root, then the call of get_all_dependencies_bfs
DirectDeps ==
    /\ pc = "direct"
    /\ graph' = <<>>
    /\ visited' = {}
    /\ queue' = <<(<<config.package_name, 0>>)>>
    /\ pc' = "bfs"
    /\ UNCHANGED <<config, index, calls, reverse_graph, dot_str, tree,
                   failure, exit_status>>

DirectDepsFails ==
    /\ pc = "direct"
    /\ Fail("lookup")
    /\ UNCHANGED <<config, index, graph, visited, queue, calls,
                   reverse_graph, dot_str, tree>>

\* one iteration of `while queue`
BfsStep ==
    /\ pc = "bfs"
    /\ queue # <<>>
    /\ LET pkg == Head(queue)[1]
           depth == Head(queue)[2]
       IN  IF depth > config.max_depth
           THEN /\ queue' = Tail(queue)
                /\ UNCHANGED <<graph, visited, calls>>
           ELSE IF AlreadyVisited(pkg, visited)
           THEN /\ queue' = Tail(queue)
                /\ UNCHANGED <<graph, visited, calls>>
           ELSE IF Excluded(config.filter_substring, pkg)
           THEN /\ visited' = MarkVisited(visited, pkg)
                /\ queue' = Tail(queue)
                /\ UNCHANGED <<graph, calls>>
           ELSE LET deps == parse_apk_index(index, pkg)
                IN  /\ visited' = MarkVisited(visited, pkg)
                    /\ calls' = Append(calls, pkg)
                    /\ graph' = DictSet(graph, pkg, deps)
                    /\ queue' = Tail(queue)
                                \o Enqueue(deps, depth, visited', config.max_depth)
    /\ UNCHANGED <<pc, config, index, reverse_graph, dot_str, tree,
                   failure, exit_status>>

\* the lookup of an iteration raises
BfsLookupFails ==
    /\ pc = "bfs"
    /\ queue # <<>>
    /\ LET pkg == Head(queue)[1]
           depth == Head(queue)[2]
       IN  /\ ~(depth > config.max_depth)
           /\ ~AlreadyVisited(pkg, visited)
           /\ ~Excluded(config.filter_substring, pkg)
           /\ visited' = MarkVisited(visited, pkg)
           /\ calls' = Append(calls, pkg)
           /\ queue' = Tail(queue)
    /\ Fail("lookup")
    /\ UNCHANGED <<config, index, graph, reverse_graph, dot_str, tree>>

BfsReturn ==
    /\ pc = "bfs"
    /\ queue = <<>>
    /\ pc' = "reverse"
    /\ UNCHANGED <<config, index, graph, visited, queue, calls,
                   reverse_graph, dot_str, tree, failure, exit_status>>

ReverseDeps ==
    /\ pc = "reverse"
    /\ reverse_graph' = get_reverse_dependencies(graph)
    /\ dot_str' = generate_dot(graph)
    /\ pc' = "save_graph_svg"
    /\ UNCHANGED <<config, index, graph, visited, queue, calls, tree,
                   failure, exit_status>>

\* config["ascii_mode"] is drawn here, where main reads it
AfterSvg ==
    \E ascii_mode \in BOOLEAN :
        IF ascii_mode
        THEN pc' = "print_ascii_tree" /\ exit_status' = exit_status
        ELSE pc' = "exit" /\ exit_status' = 0

SaveGraphSvg ==
    /\ pc = "save_graph_svg"
    /\ AfterSvg
    /\ UNCHANGED <<config, index, graph, visited, queue, calls,
                   reverse_graph, dot_str, tree, failure>>

\* `dot` is absent (FileNotFoundError) or exits non-zero
\* (CalledProcessError): the handler prints and returns
SaveGraphSvgFails ==
    /\ pc = "save_graph_svg"
    /\ failure' = "render"
    /\ AfterSvg
    /\ UNCHANGED <<config, index, graph, visited, queue, calls,
                   reverse_graph, dot_str, tree>>

PrintAsciiTree ==
    /\ pc = "print_ascii_tree"
    /\ LET r == print_ascii_tree(graph, config.package_name, <<>>, 1)
       IN  /\ tree' = r.out
           /\ IF r.returned
              THEN exit_status' = 0 /\ failure' = failure
              ELSE exit_status' = 1 /\ failure' = "RecursionError"
    /\ pc' = "exit"
    /\ UNCHANGED <<config, index, graph, visited, queue, calls,
                   reverse_graph, dot_str>>

Next ==
    \/ LoadConfig
    \/ LoadConfigFails
    \/ ValidateConfig
    \/ ValidateConfigFails
    \/ DownloadApkIndex
    \/ DownloadApkIndexFails
    \/ DirectDeps
    \/ DirectDepsFails
    \/ BfsStep
    \/ BfsLookupFails
    \/ BfsReturn
    \/ ReverseDeps
    \/ SaveGraphSvg
    \/ SaveGraphSvgFails
    \/ PrintAsciiTree

Spec == Init /\ [][Next]_vars

\* the program is one thread that runs on until it exits
FairSpec == Spec /\ WF_vars(Next)

\* ------------------------------------------------------------ properties
root == config.package_name

\* get_all_dependencies_bfs has just returned its graph to main (graph, calls,
\* config and index do not change afterwards)
Built == pc = "reverse"

\* get_reverse_dependencies has just returned to main
Reversed == pc = "save_graph_svg"

Contains(name, sub) ==
    \E i \in 0..(Len(name) - Len(sub)) : \A j \in 1..Len(sub) : name[i + j] = sub[j]

Filtered(name) ==
    config.filter_substring # <<>> /\ Contains(name, config.filter_substring)

Deps(name) == Range(index[name])

\* the names within k edges of the root
RECURSIVE Within(_)
Within(k) ==
    IF k = 0 THEN {root}
    ELSE LET w == Within(k - 1) IN w \cup UNION {Deps(n) : n \in w}

\* the names within k edges of the root along names the filter lets through
RECURSIVE WithinAllowed(_)
WithinAllowed(k) ==
    IF k = 0 THEN {n \in {root} : ~Filtered(n)}
    ELSE LET w == WithinAllowed(k - 1)
         IN  w \cup {m \in UNION {Deps(n) : n \in w} : ~Filtered(m)}

\* C1 (depth bound): every key of the graph, at every point of the
\* traversal and in the result, is within max_depth edges of the root, so no
\* name farther than max_depth becomes a key; with max_depth = 0 the only
\* possible key is the root.
DepthBound ==
    /\ graph # <<>> => DictKeys(graph) \subseteq Within(config.max_depth)
    /\ config.max_depth = 0 => DictKeys(graph) \subseteq {root}

\* a traversal cut by the depth: BC is two edges away and max_depth is 1
DepthBoundWitness ==
    /\ Built
    /\ config.max_depth = 1 /\ config.filter_substring = <<>> /\ root = A
    /\ index[A] = <<B>> /\ index[B] = <<BC>>
    /\ DictKeys(graph) = {A, B}

\* C2 (filter exclusion): at every point no key contains the non-empty
\* filter as a substring, no excluded name was looked up, and each key's
\* recorded list is the lookup's list, excluded names included.
FilterExclusion ==
    /\ \A k \in DictKeys(graph) : ~Filtered(k)
    /\ \A i \in 1..Len(calls) : ~Filtered(calls[i])
    /\ \A k \in DictKeys(graph) : DictGet(graph, k, <<>>) = index[k]

\* the filter "C" kept BC, a dependency of both keys, out of the keys
FilterExclusionWitness ==
    /\ Built
    /\ config.filter_substring = <<"C">> /\ root = A
    /\ graph = <<(<<A, <<B, BC>>>>), (<<B, <<BC>>>>)>>
    /\ BC \in visited

\* C3 (traversal termination): every iteration of the loop that stays in the
\* loop decreases the pair <<names not yet visited, queue length>> in the
\* lexicographic order, an iteration or the return is always possible, and
\* the cycle A->[B], B->[A] from root A with max_depth 5 gives exactly
\* {A:[B], B:[A]}.
Unvisited == Cardinality(Names \ visited)

BfsDecreases ==
    (pc = "bfs" /\ pc' = "bfs") =>
        \/ Cardinality(Names \ visited') < Unvisited
        \/ Cardinality(Names \ visited') = Unvisited /\ Len(queue') < Len(queue)

CycleResult ==
    (/\ Built
     /\ root = A /\ config.max_depth = 5
     /\ index[A] = <<B>> /\ index[B] = <<A>>
     /\ config.filter_substring = <<>>)
    => graph = <<(<<A, <<B>>>>), (<<B, <<A>>>>)>>

TraversalTerminates ==
    /\ [][BfsDecreases]_vars
    /\ [](pc = "bfs" => ENABLED (BfsStep \/ BfsReturn))
    /\ []CycleResult

\* the same as a leads-to, under FairSpec
LoopEnds == (pc = "bfs") ~> (pc # "bfs")

\* the traversal of the cycle, with a self-dependency beside it, has returned
TraversalTerminatesWitness ==
    /\ Built
    /\ root = A /\ config.max_depth = 5 /\ config.filter_substring = <<>>
    /\ index[A] = <<B>> /\ index[B] = <<A>> /\ index[BC] = <<BC>>
    /\ graph = <<(<<A, <<B>>>>), (<<B, <<A>>>>)>>

\* C4 (no duplicate expansion): no name is looked up twice, every key was
\* looked up, and the dequeue of an already visited name changes neither the
\* graph nor the lookups made.
NoDuplicateLookup ==
    /\ \A i, j \in 1..Len(calls) : calls[i] = calls[j] => i = j
    /\ DictKeys(graph) \subseteq Range(calls)
    /\ Len(graph) = Cardinality(DictKeys(graph))

DiscardKeepsGraph ==
    (pc = "bfs" /\ queue # <<>> /\ Head(queue)[1] \in visited) =>
        (graph' = graph /\ calls' = calls)

NoDuplicateExpansion ==
    /\ []NoDuplicateLookup
    /\ [][DiscardKeepsGraph]_vars

\* BC was put on the queue by A and again by B before its first dequeue
NoDuplicateExpansionWitness ==
    /\ Built
    /\ root = A /\ config.max_depth = 2 /\ config.filter_substring = <<>>
    /\ index[A] = <<B, BC>> /\ index[B] = <<BC>> /\ index[BC] = <<A>>
    /\ calls = <<A, B, BC>>
    /\ Len(graph) = 3

\* C5 (reverse correctness): B occurs in graph[A] exactly when A occurs in
\* reverse_graph[B].
ReverseCorrectness ==
    Reversed =>
        \A a, b \in Names :
            (b \in Range(DictGet(graph, a, <<>>)))
                <=> (a \in Range(DictGet(reverse_graph, b, <<>>)))

\* BC has two dependents
ReverseCorrectnessWitness ==
    /\ Reversed
    /\ graph = <<(<<A, <<B, BC>>>>), (<<B, <<BC>>>>), (<<BC, <<>>>>)>>
    /\ DictGet(reverse_graph, BC, <<>>) = <<A, B>>
    /\ DictGet(reverse_graph, B, <<>>) = <<A>>

\* C6 (reverse graph domain): every key of the graph and every name in a
\* dependency list has an entry in the reverse graph.
ReverseDomain ==
    Reversed =>
        (DictKeys(graph) \cup UNION {Range(graph[i][2]) : i \in 1..Len(graph)})
            \subseteq DictKeys(reverse_graph)

\* C7 (tree renderer termination): print_ascii_tree returns for every graph
\* the traversal can build.
TreeRendererReturns == failure # "RecursionError"

\* C8 (exit behaviour on failure): a run in which a stage failed does not end
\* with exit status 0.
FailureExitsNonZero ==
    (pc = "exit" /\ failure # "none") => exit_status # 0

\* C9 (completeness): once the traversal has returned, every name within
\* max_depth edges of the root along names the filter lets through is a key,
\* recorded with the lookup's list.
Completeness ==
    Built =>
        \A n \in WithinAllowed(config.max_depth) :
            n \in DictKeys(graph) /\ DictGet(graph, n, <<>>) = index[n]

\* root B with the filter "A": A is excluded, BC is a key and so is B; the
\* excluded A is listed by both
CompletenessWitness ==
    /\ Built
    /\ root = B /\ config.max_depth = 1 /\ config.filter_substring = <<"A">>
    /\ index[B] = <<A, BC>> /\ index[BC] = <<B, A>> /\ index[A] = <<>>
    /\ DictKeys(graph) = {B, BC}

\* C10 (step-order equivalence): the returned graph (keys, their order, their
\* lists) and the sequence of lookups are those of the design's step order,
\* and no queued entry is deeper than max_depth, so the depth check never
\* fires.
StepOrderEquivalence ==
    /\ \A i \in 1..Len(queue) : queue[i][2] <= config.max_depth
    /\ Built =>
        LET r == DesignBuild(<<(<<root, 0>>)>>, {}, <<>>, <<>>, index,
                             config.max_depth, config.filter_substring)
        IN  graph = r.graph /\ calls = r.calls

\* an excluded name (BC, by "C") listed by both keys: the code marks it
\* visited and queues it once, the design queues it twice
StepOrderEquivalenceWitness ==
    /\ Built
    /\ root = A /\ config.max_depth = 2 /\ config.filter_substring = <<"C">>
    /\ index[A] = <<BC, B>> /\ index[B] = <<BC, A>>
    /\ graph = <<(<<A, <<BC, B>>>>), (<<B, <<BC, A>>>>)>>
    /\ visited = {A, B, BC}

====
